---- MODULE Spec2Model ----
(***************************************************************************)
(* Model of the FacialRecognition scripts: the known-faces directory, the  *)
(* pickled encodings cache, the FaceRecognitionSystem registry and the     *)
(* FaceRegistration operations.                                            *)
(*                                                                         *)
(* Conventions.                                                            *)
(*  - A file name is the sequence of the strings it is the concatenation   *)
(*    of, <<"Jean", "_001", ".jpg">>; pathlib's suffix is its last         *)
(*    component when that is a dot and an extension.                       *)
(*  - A face encoding is [vec, img]: vec is the embedding, abstracted to   *)
(*    one integer coordinate, distances in tenths (tolerance 0.6 is 6);    *)
(*    img is a history tag, the <<person dir, file name>> of the image the *)
(*    library computed it from.  The code never reads img.                 *)
(*  - A file's content is [ok, faces]: ok is FALSE when the library raises *)
(*    on loading it, faces are the embeddings face_encodings finds.        *)
(***************************************************************************)
EXTENDS Integers, Sequences, FiniteSets, TLC

VARIABLES
    root_exists,            \* known_faces/ exists
    tree,                   \* person dir name -> (file name -> content)
    cache,                  \* face_encodings.pkl: NoFile or a pickled blob
    constructed,            \* a FaceRecognitionSystem object exists
    known_face_encodings,   \* its field
    known_face_names,       \* its field
    last_op,                \* the operation that ran last
    console,                \* lines printed by the last encode_known_faces or loop iteration
    ret,                    \* value returned by the last operation
    input,                  \* arguments of the last operation, where a claim needs them
    saved,                  \* history: the <<E, N>> last given to save_encodings, or <<>>
    pc,                     \* "idle", or the webcam loop that is running
    cap,                    \* arguments and locals of the running or last capture call
    clock,                  \* time.time() as last read, in ticks
    handles,                \* webcam handles that are open
    windows                 \* names of the display windows that are open

vars == <<root_exists, tree, cache, constructed,
          known_face_encodings, known_face_names, last_op, console, ret, input,
          saved, pc, cap, clock, handles, windows>>

\* The variables of the webcam loops.
camvars == <<pc, cap, clock, handles, windows>>

\* The variables of the recognition system and the pickle file.
sysvars == <<cache, constructed, known_face_encodings, known_face_names, saved>>

----------------------------------------------------------------------------
(* Bounds *)

\* most files the known_faces tree holds
MaxFiles == 3
\* most entries the in-memory registry holds
MaxRegistry == 6
\* longest list given to save_encodings
MaxList == 2
\* clock ticks per second
TicksPerSecond == 2
\* most ticks the clock advances while the webcam loops run
MaxElapsed == 4
\* most files the known_faces tree holds when a webcam loop writes into it
MaxShots == 2
\* most frames start_video_recognition shows
MaxFrames == 2
\* largest num_photos asked for
MaxPhotos == 2

----------------------------------------------------------------------------
(* Values *)

\* os.path.exists(encodings_file) is false
NoFile == <<>>

\* Return values, tagged with their Python type.
None == [kind |-> "None", val |-> 0]
BoolVal(b) == [kind |-> "bool", val |-> b]
IntVal(n) == [kind |-> "int", val |-> n]
Labels(l) == [kind |-> "list", val |-> l]
Raised == [kind |-> "raised", val |-> 0]

Persons == {"Jean", "Marie"}

Image(faces) == [ok |-> TRUE, faces |-> faces]
Corrupt == [ok |-> FALSE, faces |-> <<>>]

\* Files outside known_faces/ that add_from_file can be pointed at.
SourceFiles ==
    (<<"portrait", ".jpg">>  :> Image(<<0>>))     @@
    (<<"group", ".PNG">>     :> Image(<<6, 7>>))  @@
    (<<"wall", ".jpeg">>     :> Image(<<>>))      @@
    (<<"broken", ".bmp">>    :> Corrupt)          @@
    (<<"notes", ".txt">>     :> Corrupt)

\* A path that does not exist.
MissingSource == <<"missing", ".jpg">>

SourcePaths == DOMAIN SourceFiles \cup {MissingSource}

\* The components that are a dot and an extension.
Extensions == {".jpg", ".jpeg", ".png", ".bmp", ".JPG", ".JPEG", ".PNG", ".BMP", ".txt"}

\* pathlib: Path.suffix
Suffix(name) ==
    IF Len(name) > 1 /\ name[Len(name)] \in Extensions THEN name[Len(name)] ELSE ""

\* str.lower on the suffixes that occur
Lower(s) ==
    CASE s = ".JPG"  -> ".jpg"
      [] s = ".JPEG" -> ".jpeg"
      [] s = ".PNG"  -> ".png"
      [] s = ".BMP"  -> ".bmp"
      [] OTHER       -> s

image_extensions == {".jpg", ".jpeg", ".png", ".bmp"}

\* tolerance=0.6, in tenths
Tolerance == 6

\* All <<person, file name>> of files inside person directories.
TreePaths(t) == UNION {{<<d, f>> : f \in DOMAIN t[d]} : d \in DOMAIN t}

NFiles(t) == Cardinality(TreePaths(t))

----------------------------------------------------------------------------
(* pickle: a dict is written as its (key, value) items and read back by key *)

pickle_dump(encodings, names) == << <<"encodings", encodings>>, <<"names", names>> >>

pickle_load(blob) ==
    [k \in {blob[i][1] : i \in DOMAIN blob} |->
        blob[CHOOSE i \in DOMAIN blob : blob[i][1] = k][2]]

----------------------------------------------------------------------------
(* FaceRecognitionSystem.encode_known_faces and load_known_faces.  They    *)
(* work on w = [root, file, encodings, names, out, exc]: whether           *)
(* known_faces/ exists, the cache file, the two registry lists, the lines  *)
(* printed per image, and whether an exception is propagating.             *)

\* Path.iterdir yields in arbitrary order: the person directories one after
\* the other, the files of each in some order.
Orders(t) ==
    LET n == NFiles(t) IN
    {o \in [1..n -> TreePaths(t)] :
        /\ \A i, j \in 1..n : i # j => o[i] # o[j]
        /\ \A i, j, k \in 1..n :
               (i < j /\ j < k /\ o[i][1] = o[k][1]) => o[j][1] = o[i][1]}

\* Mutant: names.append(person_name) outside "if face_encodings".
ProcessImage_NameAlways(st, person_name, image_name) ==
    LET content == tree[person_name][image_name] IN
    IF ~content.ok
    THEN [st EXCEPT !.out = Append(@, <<"error", person_name, image_name>>)]
    ELSE IF content.faces # <<>>
    THEN [st EXCEPT
            !.encodings = Append(@, [vec |-> content.faces[1],
                                     img |-> <<person_name, image_name>>]),
            !.names = Append(@, person_name),
            !.out = Append(@, <<"ok", person_name, image_name>>)]
    ELSE [st EXCEPT !.names = Append(@, person_name),
                    !.out = Append(@, <<"noface", person_name, image_name>>)]

\* Mutant: no try/except around the library calls.
ProcessImage_Propagate(st, person_name, image_name) ==
    LET content == tree[person_name][image_name] IN
    IF ~content.ok
    THEN [st EXCEPT !.exc = TRUE]
    ELSE IF content.faces # <<>>
    THEN [st EXCEPT
            !.encodings = Append(@, [vec |-> content.faces[1],
                                     img |-> <<person_name, image_name>>]),
            !.names = Append(@, person_name),
            !.out = Append(@, <<"ok", person_name, image_name>>)]
    ELSE [st EXCEPT !.out = Append(@, <<"noface", person_name, image_name>>)]

\* The try/except body for one image with a supported extension.
ProcessImage(st, person_name, image_name) ==
    LET content == tree[person_name][image_name] IN
    IF ~content.ok
    THEN \* load_image_file raises; except Exception prints it
         [st EXCEPT !.out = Append(@, <<"error", person_name, image_name>>)]
    ELSE IF content.faces # <<>>
    THEN [st EXCEPT
            !.encodings = Append(@, [vec |-> content.faces[1],
                                     img |-> <<person_name, image_name>>]),
            !.names = Append(@, person_name),
            !.out = Append(@, <<"ok", person_name, image_name>>)]
    ELSE [st EXCEPT !.out = Append(@, <<"noface", person_name, image_name>>)]

RECURSIVE EncodeLoop(_, _)
EncodeLoop(order, st) ==
    IF order = <<>> \/ st.exc THEN st
    ELSE LET p == Head(order) IN
         EncodeLoop(Tail(order),
                    IF Lower(Suffix(p[2])) \in image_extensions
                    THEN ProcessImage(st, p[1], p[2])
                    ELSE st)

encode_known_faces(w, order) ==
    IF ~w.root
    THEN [w EXCEPT !.root = TRUE, !.out = <<>>]
    ELSE LET st == EncodeLoop(order, [w EXCEPT !.out = <<>>]) IN
         IF st.exc THEN st
         ELSE IF st.encodings # <<>>
         THEN [st EXCEPT !.file = pickle_dump(st.encodings, st.names)]
         ELSE st

load_known_faces(w, order) ==
    IF w.file # NoFile
    THEN LET data == pickle_load(w.file) IN
         [w EXCEPT !.encodings = data["encodings"], !.names = data["names"],
                   !.out = <<>>]
    ELSE encode_known_faces(w, order)

\* The object and the files as the operations see them.  known_faces/ is
\* modelled by its person directories; is_dir() skips the plain files in it.
World ==
    [root |-> root_exists, file |-> cache,
     encodings |-> known_face_encodings, names |-> known_face_names,
     out |-> <<>>, exc |-> FALSE]

\* Write a world back to the state.
Commit(w, op) ==
    /\ root_exists' = w.root
    /\ cache' = w.file
    /\ known_face_encodings' = w.encodings
    /\ known_face_names' = w.names
    /\ console' = w.out
    /\ last_op' = op
    /\ ret' = IF w.exc THEN Raised ELSE None
    /\ input' = <<>>

----------------------------------------------------------------------------
(* FaceRecognitionSystem.recognize_faces_in_frame.  A frame is the         *)
(* sequence of embeddings face_encodings finds in it.                      *)

Abs(x) == IF x < 0 THEN -x ELSE x

\* face_recognition.face_distance: the norm of the difference, per known face
face_distance(known, face) == [i \in DOMAIN known |-> Abs(known[i].vec - face)]

\* face_recognition.compare_faces: distance <= tolerance, per known face
compare_faces(known, face, tolerance) ==
    [i \in DOMAIN known |-> face_distance(known, face)[i] <= tolerance]

\* np.argmin: the first index of the minimum
argmin(d) ==
    CHOOSE i \in DOMAIN d :
        /\ \A j \in DOMAIN d : d[i] <= d[j]
        /\ \A j \in DOMAIN d : j < i => d[j] > d[i]

Inconnu == <<"Inconnu">>

\* f"{name} ({confidence:.1f}%)" with confidence = (1 - distance) * 100
Formatted(name, distance) == <<name, (10 - distance) * 10>>

\* Mutant: the name of the first match instead of the closest one.
FaceName_FirstMatch(encodings, names, face_encoding) ==
    LET matches == compare_faces(encodings, face_encoding, Tolerance) IN
    IF \E i \in DOMAIN matches : matches[i]
    THEN LET first_match_index ==
                 CHOOSE i \in DOMAIN matches :
                     matches[i] /\ \A j \in DOMAIN matches : j < i => ~matches[j]
         IN  Formatted(names[first_match_index],
                       face_distance(encodings, face_encoding)[first_match_index])
    ELSE Inconnu

\* The body of the loop over face_encodings: the label of one face.
FaceName(encodings, names, face_encoding) ==
    LET matches == compare_faces(encodings, face_encoding, Tolerance) IN
    IF encodings # <<>>
    THEN LET face_distances == face_distance(encodings, face_encoding)
             best_match_index == argmin(face_distances)
         IN  IF matches[best_match_index]
             THEN Formatted(names[best_match_index],
                            face_distances[best_match_index])
             ELSE Inconnu
    ELSE Inconnu

recognize_faces_in_frame(encodings, names, face_encodings) ==
    [i \in DOMAIN face_encodings |-> FaceName(encodings, names, face_encodings[i])]

\* Frames shown to the system.
Frames == {<<>>, <<0>>, <<3>>, <<4>>, <<12>>, <<13>>, <<4, 13>>}

----------------------------------------------------------------------------
(* Operations on the registry *)

Fresh == [World EXCEPT !.encodings = <<>>, !.names = <<>>]

\* FaceRecognitionSystem(known_faces_dir="known_faces")
SystemInit ==
    /\ pc = "idle"
    /\ \E order \in Orders(tree) : Commit(load_known_faces(Fresh, order), "init")
    /\ constructed' = TRUE
    /\ UNCHANGED <<tree, saved, camvars>>

\* system.load_known_faces()
LoadKnownFaces ==
    /\ constructed
    /\ \E order \in Orders(tree) :
          LET w == load_known_faces(World, order) IN
          Len(w.encodings) <= MaxRegistry /\ Commit(w, "load")
    /\ UNCHANGED <<tree, constructed, saved, camvars>>

\* system.encode_known_faces()
EncodeKnownFaces ==
    /\ constructed
    /\ \E order \in Orders(tree) :
          LET w == encode_known_faces(World, order) IN
          Len(w.encodings) <= MaxRegistry /\ Commit(w, "encode")
    /\ UNCHANGED <<tree, constructed, saved, camvars>>

\* main() of face_recognition_system.py with choice "3"
MainReencode ==
    /\ \E order1, order2 \in Orders(tree) :
          LET system == load_known_faces(Fresh, order1)
              w == encode_known_faces([system EXCEPT !.file = NoFile], order2)
          IN  IF system.encodings = <<>>
              THEN Commit(system, "main")
              ELSE Len(w.encodings) <= MaxRegistry /\ Commit(w, "reencode")
    /\ constructed' = TRUE
    /\ UNCHANGED <<tree, saved, camvars>>

\* system.recognize_faces_in_frame(frame)
Recognize ==
    /\ constructed
    /\ \E f \in Frames :
          /\ input' = f
          /\ ret' = Labels(recognize_faces_in_frame(known_face_encodings,
                                                    known_face_names, f))
    /\ last_op' = "recognize"
    /\ console' = <<>>
    /\ UNCHANGED <<root_exists, tree, cache, constructed,
                   known_face_encodings, known_face_names, saved, camvars>>

----------------------------------------------------------------------------
(* utils.save_encodings and utils.load_encodings, called with the default  *)
(* filename "face_encodings.pkl", the file the system reads.               *)

\* Lists of at most n elements of S.
ListsOf(S, n) == UNION {[1..k -> S] : k \in 0..n}

\* Elements of the encodings lists tried for save_encodings.
SomeEncodings == {[vec |-> 0, img |-> <<"Jean", <<"portrait", ".jpg">>>>]}

\* Mutant: the file is opened with 'ab'; pickle.load reads the first object.
save_encodings_Append(file, encodings, names) ==
    IF file # NoFile THEN file ELSE pickle_dump(encodings, names)

\* The blob save_encodings leaves in the file: open(filename, 'wb') truncates.
save_encodings(file, encodings, names) == pickle_dump(encodings, names)

\* utils.save_encodings(encodings, names)
SaveEncodings ==
    /\ \E encodings \in ListsOf(SomeEncodings, MaxList),
          names \in ListsOf(Persons, MaxList) :
          /\ cache' = save_encodings(cache, encodings, names)
          /\ saved' = <<encodings, names>>
    /\ input' = <<>>
    /\ last_op' = "save_encodings"
    /\ console' = <<>>
    /\ ret' = None
    /\ UNCHANGED <<root_exists, tree, constructed,
                   known_face_encodings, known_face_names, camvars>>

\* What load_encodings returns: open() raises when the file is missing.
load_encodings(file) ==
    IF file = NoFile THEN Raised
    ELSE [kind |-> "dict", val |-> pickle_load(file)]

\* utils.load_encodings()
LoadEncodings ==
    /\ ret' = load_encodings(cache)
    /\ input' = <<>>
    /\ last_op' = "load_encodings"
    /\ console' = <<>>
    /\ UNCHANGED <<root_exists, tree, cache, constructed,
                   known_face_encodings, known_face_names, saved, camvars>>

----------------------------------------------------------------------------
(* FaceRegistration *)

\* FaceRegistration(known_faces_dir="known_faces")
FaceRegistrationInit ==
    /\ pc = "idle"
    /\ root_exists' = TRUE
    /\ last_op' = "registration"
    /\ console' = <<>>
    /\ ret' = None
    /\ input' = <<>>
    /\ UNCHANGED <<tree, cache, constructed,
                   known_face_encodings, known_face_names, saved, camvars>>

\* person_dir.mkdir(exist_ok=True)
Mkdir(t, person_name) ==
    [d \in DOMAIN t \cup {person_name} |-> IF d \in DOMAIN t THEN t[d] ELSE <<>>]

\* a file written into person_dir
WriteFile(t, person_name, name, content) ==
    [t EXCEPT ![person_name] =
        [f \in DOMAIN @ \cup {name} |-> IF f = name THEN content ELSE @[f]]]

\* Mutant: the person directory is created before the existence check.
add_from_file_MkdirFirst(t, person_name, image_path) ==
    IF image_path \notin DOMAIN SourceFiles
    THEN [tree |-> Mkdir(t, person_name), ret |-> BoolVal(FALSE)]
    ELSE [tree |-> WriteFile(Mkdir(t, person_name), person_name, image_path,
                             SourceFiles[image_path]),
          ret |-> BoolVal(TRUE)]

add_from_file(t, person_name, image_path) ==
    IF image_path \notin DOMAIN SourceFiles
    THEN [tree |-> t, ret |-> BoolVal(FALSE)]
    ELSE [tree |-> WriteFile(Mkdir(t, person_name), person_name, image_path,
                             SourceFiles[image_path]),
          ret |-> BoolVal(TRUE)]

\* registration.add_from_file(person_name, image_path)
AddFromFile ==
    /\ root_exists
    /\ \E person_name \in Persons, image_path \in SourcePaths :
          LET r == add_from_file(tree, person_name, image_path) IN
          /\ NFiles(r.tree) <= MaxFiles
          /\ tree' = r.tree
          /\ ret' = r.ret
          /\ input' = <<person_name, image_path>>
    /\ last_op' = "add_from_file"
    /\ console' = <<>>
    /\ UNCHANGED <<root_exists, cache, constructed,
                   known_face_encodings, known_face_names, saved, camvars>>

\* What the user answers to main() of register_face.py, choice "3".
RegisterInputs ==
    {<<"Jean", <<"portrait", ".jpg">>>>, <<"Jean", <<"broken", ".bmp">>>>,
     <<"Marie", <<"group", ".PNG">>>>, <<"Marie", <<"wall", ".jpeg">>>>,
     <<"Marie", <<"notes", ".txt">>>>, <<"Jean", MissingSource>>}

\* main() of register_face.py with choice "3": a registration run
RegisterMain ==
    /\ \E a \in RegisterInputs :
          LET r == add_from_file(tree, a[1], a[2]) IN
          /\ NFiles(r.tree) <= MaxFiles
          /\ tree' = r.tree
    /\ root_exists' = TRUE
    /\ last_op' = "register"
    /\ console' = <<>>
    /\ ret' = None
    /\ input' = <<>>
    /\ UNCHANGED <<cache, constructed, known_face_encodings, known_face_names,
                   saved, camvars>>

----------------------------------------------------------------------------
(* FaceRegistration.capture_faces_from_webcam and capture_single_photo.    *)
(* One action starts a call (up to the loop), one action is one iteration  *)
(* of its loop; an iteration that leaves the loop also runs the finally    *)
(* block and the code after it, up to the return.                          *)

\* capture_cooldown = 1.0 seconds
capture_cooldown == 1 * TicksPerSecond

\* time.time() when the program starts: well beyond capture_cooldown after 0.
Epoch == capture_cooldown + TicksPerSecond

MaxClock == Epoch + MaxElapsed

\* f"_{photo_count:03d}"
NumberPart == <<"_001", "_002", "_003", "_004", "_005">>

\* f"_{timestamp}" for timestamp = int(time.time())
StampPart == <<"_0", "_1", "_2", "_3", "_4", "_5", "_6", "_7", "_8", "_9">>

\* No call yet.  photo_name <<>> is None.
NoCall ==
    [fn |-> "none", person_name |-> "", num_photos |-> 0, photo_name |-> <<>>,
     photo_count |-> 0, last_capture_time |-> 0, captured |-> FALSE,
     written |-> <<>>, exit |-> "", message |-> FALSE,
     frame_count |-> 0, detected_names |-> <<>>]

\* What video_capture.read() and the cascade give for one iteration: whether
\* a frame was read, how many faces the Haar cascade finds in it, and the
\* image as the recognition library will later see it.
CamFrames ==
    {[faces |-> 0, image |-> Image(<<>>)],
     [faces |-> 1, image |-> Image(<<0>>)],
     [faces |-> 1, image |-> Image(<<>>)]}

\* cv2.waitKey(1) & 0xFF
Keys == {"space", "q", "other"}

\* num_photos values asked for; main() passes any int.
NumPhotos == (-1) .. MaxPhotos

\* photo_name arguments; <<>> is None.
PhotoNames == {<<>>, <<"id", ".png">>, <<"scan", ".bmp">>}

\* print("Aucun visage détecté. Réessayez.")
NoFaceWarning == <<"Aucun visage detecte. Reessayez.">>

\* Mutant: the photo is saved whatever the cascade found.
FacesFound_Always(frm) == TRUE

\* len(faces) > 0
FacesFound(frm) == frm.faces > 0

\* Mutant: >= in the cooldown test.
CooldownOver_Inclusive(current_time, last_capture_time) ==
    (current_time - last_capture_time) >= capture_cooldown

\* (current_time - last_capture_time) > capture_cooldown
CooldownOver(current_time, last_capture_time) ==
    (current_time - last_capture_time) > capture_cooldown

\* The body of the while loop of capture_faces_from_webcam.
\* Returns the locals, the tree, whether the loop was left by break, and the
\* lines the iteration prints.
MultiBody(c, t, ok, frm, key, current_time) ==
    IF ~ok
    THEN [c |-> [c EXCEPT !.exit = "readfail"], tree |-> t, brk |-> TRUE,
          out |-> <<"Impossible de lire l'image">>]
    ELSE IF key = "space" /\ CooldownOver(current_time, c.last_capture_time)
    THEN IF FacesFound(frm)
         THEN LET photo_count == c.photo_count + 1
                  filename == <<c.person_name, NumberPart[photo_count], ".jpg">>
              IN  [c |-> [c EXCEPT !.photo_count = photo_count,
                                   !.last_capture_time = current_time,
                                   !.written = Append(@, <<filename, current_time>>)],
                   tree |-> WriteFile(t, c.person_name, filename, frm.image),
                   brk |-> FALSE, out |-> <<"Photo sauvegardee">>]
         ELSE [c |-> c, tree |-> t, brk |-> FALSE, out |-> NoFaceWarning]
    ELSE IF key = "q"
    THEN [c |-> [c EXCEPT !.exit = "q"], tree |-> t, brk |-> TRUE,
          out |-> <<"Enregistrement annule">>]
    ELSE [c |-> c, tree |-> t, brk |-> FALSE, out |-> <<>>]

\* After the loop of capture_faces_from_webcam: the message and the return.
MultiAfterLoop(c) ==
    [c |-> [c EXCEPT !.message = (c.photo_count >= c.num_photos),
                     !.exit = IF @ = "" THEN "done" ELSE @],
     ret |-> IntVal(c.photo_count)]

\* registration.capture_faces_from_webcam(person_name, num_photos), to the loop
CaptureFacesStart ==
    /\ pc = "idle"
    /\ root_exists
    /\ \E person_name \in Persons, num_photos \in NumPhotos, opened \in BOOLEAN :
          LET c == [NoCall EXCEPT !.fn = "multi", !.person_name = person_name,
                                  !.num_photos = num_photos]
          IN  /\ tree' = Mkdir(tree, person_name)
              /\ IF ~opened
                 THEN /\ cap' = [c EXCEPT !.exit = "nocam"]
                      /\ ret' = None
                      /\ UNCHANGED <<pc, handles, windows>>
                 ELSE IF c.photo_count < c.num_photos
                 THEN /\ cap' = c
                      /\ pc' = "multi"
                      /\ handles' = handles + 1
                      /\ ret' = None
                      /\ UNCHANGED windows
                 ELSE /\ cap' = MultiAfterLoop(c).c
                      /\ ret' = MultiAfterLoop(c).ret
                      /\ windows' = {}
                      /\ UNCHANGED <<pc, handles>>
    /\ last_op' = "capture_faces"
    /\ console' = <<>>
    /\ input' = <<>>
    /\ UNCHANGED <<root_exists, sysvars, clock>>

\* one iteration of the loop of capture_faces_from_webcam
CaptureFacesIter ==
    /\ pc = "multi"
    /\ \E ok \in BOOLEAN, frm \in CamFrames, key \in Keys, dt \in 0..(MaxClock - clock) :
          LET r == MultiBody(cap, tree, ok, frm, key, clock + dt) IN
          /\ NFiles(r.tree) <= MaxShots
          /\ clock' = clock + dt
          /\ tree' = r.tree
          /\ IF r.brk \/ ~(r.c.photo_count < r.c.num_photos)
             THEN /\ cap' = MultiAfterLoop(r.c).c
                  /\ ret' = MultiAfterLoop(r.c).ret
                  /\ pc' = "idle"
                  /\ handles' = handles - 1
                  /\ windows' = {}
             ELSE /\ cap' = r.c
                  /\ windows' = windows \cup {<<"Enregistrement - ", cap.person_name>>}
                  /\ UNCHANGED <<pc, handles, ret>>
          /\ console' = r.out
    /\ UNCHANGED <<root_exists, sysvars, last_op, input>>

\* str.endswith(suffixes)
EndsWith(name, suffixes) == name # <<>> /\ name[Len(name)] \in suffixes

\* Mutant: captured is not set after the photo is written.
SingleSave_NoFlag(c, t, frm, current_time) ==
    LET photo_name ==
            IF c.photo_name = <<>>
            THEN <<c.person_name, StampPart[(current_time \div TicksPerSecond) + 1],
                   ".jpg">>
            ELSE IF ~EndsWith(c.photo_name, {".jpg", ".jpeg", ".png"})
            THEN Append(c.photo_name, ".jpg")
            ELSE c.photo_name
    IN  [c |-> [c EXCEPT !.photo_name = photo_name,
                         !.written = Append(@, <<photo_name, current_time>>)],
         tree |-> WriteFile(t, c.person_name, photo_name, frm.image)]

\* capture_single_photo: space pressed on a frame with a face.
SingleSave(c, t, frm, current_time) ==
    LET photo_name ==
            IF c.photo_name = <<>>
            THEN <<c.person_name, StampPart[(current_time \div TicksPerSecond) + 1],
                   ".jpg">>
            ELSE IF ~EndsWith(c.photo_name, {".jpg", ".jpeg", ".png"})
            THEN Append(c.photo_name, ".jpg")
            ELSE c.photo_name
    IN  [c |-> [c EXCEPT !.photo_name = photo_name,
                         !.captured = TRUE,
                         !.written = Append(@, <<photo_name, current_time>>)],
         tree |-> WriteFile(t, c.person_name, photo_name, frm.image)]

\* The body of the while loop of capture_single_photo.
SingleBody(c, t, ok, frm, key, current_time) ==
    IF ~ok
    THEN [c |-> [c EXCEPT !.exit = "readfail"], tree |-> t, brk |-> TRUE,
          out |-> <<"Impossible de lire l'image">>]
    ELSE IF key = "space"
    THEN IF FacesFound(frm)
         THEN [c |-> SingleSave(c, t, frm, current_time).c,
               tree |-> SingleSave(c, t, frm, current_time).tree,
               brk |-> FALSE, out |-> <<"Photo sauvegardee">>]
         ELSE [c |-> c, tree |-> t, brk |-> FALSE, out |-> NoFaceWarning]
    ELSE IF key = "q"
    THEN [c |-> [c EXCEPT !.exit = "q"], tree |-> t, brk |-> TRUE,
          out |-> <<"Capture annulee">>]
    ELSE [c |-> c, tree |-> t, brk |-> FALSE, out |-> <<>>]

\* registration.capture_single_photo(person_name, photo_name), to the loop
CaptureSingleStart ==
    /\ pc = "idle"
    /\ root_exists
    /\ \E person_name \in Persons, photo_name \in PhotoNames, opened \in BOOLEAN :
          LET c == [NoCall EXCEPT !.fn = "single", !.person_name = person_name,
                                  !.photo_name = photo_name]
          IN  /\ tree' = Mkdir(tree, person_name)
              /\ IF ~opened
                 THEN /\ cap' = [c EXCEPT !.exit = "nocam"]
                      /\ ret' = BoolVal(FALSE)
                      /\ UNCHANGED <<pc, handles>>
                 ELSE /\ cap' = c
                      /\ pc' = "single"
                      /\ handles' = handles + 1
                      /\ ret' = None
              /\ UNCHANGED windows
    /\ last_op' = "capture_single"
    /\ console' = <<>>
    /\ input' = <<>>
    /\ UNCHANGED <<root_exists, sysvars, clock>>

\* one iteration of the loop of capture_single_photo
CaptureSingleIter ==
    /\ pc = "single"
    /\ \E ok \in BOOLEAN, frm \in CamFrames, key \in Keys, dt \in 0..(MaxClock - clock) :
          LET r == SingleBody(cap, tree, ok, frm, key, clock + dt) IN
          /\ NFiles(r.tree) <= MaxShots
          /\ clock' = clock + dt
          /\ tree' = r.tree
          /\ IF r.brk \/ r.c.captured
             THEN /\ cap' = [r.c EXCEPT !.exit = IF @ = "" THEN "done" ELSE @]
                  /\ ret' = BoolVal(r.c.captured)
                  /\ pc' = "idle"
                  /\ handles' = handles - 1
                  /\ windows' = {}
             ELSE /\ cap' = r.c
                  /\ windows' = windows \cup {<<"Capture Photo">>}
                  /\ UNCHANGED <<pc, handles, ret>>
          /\ console' = r.out
    /\ UNCHANGED <<root_exists, sysvars, last_op, input>>

----------------------------------------------------------------------------
(* The finally blocks, reached by an exception raised inside a loop body   *)
(* (cv2.error from cvtColor, detectMultiScale, imshow or imwrite, or a     *)
(* KeyboardInterrupt); the exception then leaves the function.             *)

\* Mutant: the loop stands outside any try/finally.
OnException_NoFinally(h, w) == [handles |-> h, windows |-> w]

\* finally: video_capture.release(); cv2.destroyAllWindows()
OnException(h, w) == [handles |-> h - 1, windows |-> {}]

\* an iteration of capture_faces_from_webcam in which a call raises, before or
\* after the window is shown
CaptureFacesRaise ==
    /\ pc = "multi"
    /\ \E shown \in BOOLEAN :
          LET w == IF shown
                   THEN windows \cup {<<"Enregistrement - ", cap.person_name>>}
                   ELSE windows
          IN  /\ handles' = OnException(handles, w).handles
              /\ windows' = OnException(handles, w).windows
    /\ cap' = [cap EXCEPT !.exit = "raised"]
    /\ ret' = Raised
    /\ pc' = "idle"
    /\ console' = <<>>
    /\ UNCHANGED <<root_exists, tree, sysvars, last_op, input, clock>>

\* an iteration of capture_single_photo in which a call raises
CaptureSingleRaise ==
    /\ pc = "single"
    /\ \E shown \in BOOLEAN :
          LET w == IF shown THEN windows \cup {<<"Capture Photo">>} ELSE windows
          IN  /\ handles' = OnException(handles, w).handles
              /\ windows' = OnException(handles, w).windows
    /\ cap' = [cap EXCEPT !.exit = "raised"]
    /\ ret' = Raised
    /\ pc' = "idle"
    /\ console' = <<>>
    /\ UNCHANGED <<root_exists, tree, sysvars, last_op, input, clock>>

----------------------------------------------------------------------------
(* FaceRecognitionSystem.start_video_recognition *)

\* Encodings of the faces in the frames the webcam gives to the recognition.
VideoFrames == {<<>>, <<0>>, <<13>>}

\* cv2.waitKey(1) & 0xFF
VideoKeys == {"q", "s", "other"}

\* f"{frame_count}"
DecimalPart == <<"1", "2", "3", "4", "5">>

\* The body of the while loop of start_video_recognition.
VideoBody(c, encodings, names, ok, frame, key, current_time) ==
    IF ~ok
    THEN [c |-> [c EXCEPT !.exit = "readfail"], brk |-> TRUE,
          out |-> <<"Impossible de lire l'image">>]
    ELSE LET detected_names ==
                 IF c.frame_count % 2 = 0
                 THEN recognize_faces_in_frame(encodings, names, frame)
                 ELSE c.detected_names
             frame_count == c.frame_count + 1
             shown == [c EXCEPT !.detected_names = detected_names,
                                !.frame_count = frame_count]
             screenshot_path == <<"screenshot_", DecimalPart[frame_count], ".jpg">>
         IN  IF key = "q"
             THEN [c |-> [shown EXCEPT !.exit = "q"], brk |-> TRUE, out |-> <<>>]
             ELSE IF key = "s"
             THEN [c |-> [shown EXCEPT !.written =
                                    Append(@, <<screenshot_path, current_time>>)],
                   brk |-> FALSE, out |-> <<"Capture sauvegardee">>]
             ELSE [c |-> shown, brk |-> FALSE, out |-> <<>>]

\* system.start_video_recognition(), to the loop
StartVideoRecognition ==
    /\ pc = "idle"
    /\ constructed
    /\ \E opened \in BOOLEAN :
          LET c == [NoCall EXCEPT !.fn = "video"] IN
          IF ~opened
          THEN /\ cap' = [c EXCEPT !.exit = "nocam"]
               /\ UNCHANGED <<pc, handles>>
          ELSE /\ cap' = c
               /\ pc' = "video"
               /\ handles' = handles + 1
    /\ ret' = None
    /\ last_op' = "video"
    /\ console' = <<>>
    /\ input' = <<>>
    /\ UNCHANGED <<root_exists, tree, sysvars, clock, windows>>

\* one iteration of the loop of start_video_recognition
VideoIter ==
    /\ pc = "video"
    /\ \E ok \in BOOLEAN, frame \in VideoFrames, key \in VideoKeys :
          LET r == VideoBody(cap, known_face_encodings, known_face_names,
                             ok, frame, key, clock)
          IN  /\ r.c.frame_count <= MaxFrames
              /\ IF r.brk
                 THEN /\ cap' = r.c
                      /\ pc' = "idle"
                      /\ handles' = handles - 1
                      /\ windows' = {}
                      /\ console' = r.out \o <<"Reconnaissance faciale arretee">>
                 ELSE /\ cap' = r.c
                      /\ windows' = windows \cup {<<"Reconnaissance Faciale">>}
                      /\ console' = r.out
                      /\ UNCHANGED <<pc, handles>>
    /\ UNCHANGED <<root_exists, tree, sysvars, last_op, input, ret, clock>>

\* an iteration of start_video_recognition in which a call raises
VideoRaise ==
    /\ pc = "video"
    /\ \E shown \in BOOLEAN :
          LET w == IF shown THEN windows \cup {<<"Reconnaissance Faciale">>}
                   ELSE windows
          IN  /\ handles' = OnException(handles, w).handles
              /\ windows' = OnException(handles, w).windows
    /\ cap' = [cap EXCEPT !.exit = "raised"]
    /\ ret' = Raised
    /\ pc' = "idle"
    /\ console' = <<"Reconnaissance faciale arretee">>
    /\ UNCHANGED <<root_exists, tree, sysvars, last_op, input, clock>>

----------------------------------------------------------------------------
(* Specifications *)

Init ==
    /\ root_exists \in BOOLEAN
    /\ tree = <<>>
    /\ cache = NoFile
    /\ constructed = FALSE
    /\ known_face_encodings = <<>>
    /\ known_face_names = <<>>
    /\ last_op = "start"
    /\ console = <<>>
    /\ ret = None
    /\ input = <<>>
    /\ saved = <<>>
    /\ pc = "idle"
    /\ cap = NoCall
    /\ clock = Epoch
    /\ handles = 0
    /\ windows = {}

\* The life of the registry: registration runs, program launches, method calls.
Next ==
    \/ SystemInit
    \/ LoadKnownFaces
    \/ EncodeKnownFaces
    \/ MainReencode
    \/ RegisterMain

Spec == Init /\ [][Next]_vars

\* Recognition against the registries a launch builds.
NextRecognize ==
    \/ RegisterMain
    \/ SystemInit
    \/ Recognize

SpecRecognize == Init /\ [][NextRecognize]_vars

\* add_from_file on its own, with every person and path.
NextAddFile ==
    \/ FaceRegistrationInit
    \/ AddFromFile

SpecAddFile == Init /\ [][NextAddFile]_vars

\* The utils pickle functions and the system that reads their default file.
NextCodec ==
    \/ SaveEncodings
    \/ LoadEncodings
    \/ SystemInit

SpecCodec == Init /\ [][NextCodec]_vars

\* Registration from the webcam, a series of photos.
NextCapture ==
    \/ FaceRegistrationInit
    \/ CaptureFacesStart
    \/ CaptureFacesIter

SpecCapture == Init /\ [][NextCapture]_vars

\* Registration from the webcam, one photo.
NextSingle ==
    \/ FaceRegistrationInit
    \/ CaptureSingleStart
    \/ CaptureSingleIter

SpecSingle == Init /\ [][NextSingle]_vars

\* FaceRecognitionSystem() and FaceRegistration() constructed on an empty
\* known_faces directory: the state SystemInit leads to from Init.
InitWebcam ==
    /\ root_exists = TRUE
    /\ tree = <<>>
    /\ cache = NoFile
    /\ constructed = TRUE
    /\ known_face_encodings = <<>>
    /\ known_face_names = <<>>
    /\ last_op = "init"
    /\ console = <<>>
    /\ ret = None
    /\ input = <<>>
    /\ saved = <<>>
    /\ pc = "idle"
    /\ cap = NoCall
    /\ clock = Epoch
    /\ handles = 0
    /\ windows = {}

\* The three webcam loops, with the exceptions their bodies can raise.
NextWebcam ==
    \/ StartVideoRecognition
    \/ VideoIter
    \/ VideoRaise
    \/ CaptureFacesStart
    \/ CaptureFacesIter
    \/ CaptureFacesRaise
    \/ CaptureSingleStart
    \/ CaptureSingleIter
    \/ CaptureSingleRaise

SpecWebcam == InitWebcam /\ [][NextWebcam]_vars

----------------------------------------------------------------------------
(* Claims *)

\* An image encode_known_faces considers: supported extension, case-insensitive.
Considered(p) == Lower(Suffix(p[2])) \in image_extensions

\* An image in which the library detects a face.
HasFace(p) == tree[p[1]][p[2]].ok /\ tree[p[1]][p[2]].faces # <<>>

\* Number of registry entries computed from image p.
Entries(encodings, p) == Cardinality({i \in DOMAIN encodings : encodings[i].img = p})

\* C1: in every reachable state the two registry lists have the same length,
\* entry i of the names is the person directory of the image that produced
\* encoding i, and a written cache file stores two lists of equal length.
C1_ParallelLists ==
    /\ Len(known_face_encodings) = Len(known_face_names)
    /\ \A i \in DOMAIN known_face_encodings :
           known_face_names[i] = known_face_encodings[i].img[1]
    /\ cache # NoFile =>
           Len(pickle_load(cache)["encodings"]) = Len(pickle_load(cache)["names"])

C1_Witness ==
    /\ last_op = "load"
    /\ Len(known_face_encodings) >= 3
    /\ {known_face_names[i] : i \in DOMAIN known_face_names} = Persons
    /\ \E p \in TreePaths(tree) : Considered(p) /\ ~HasFace(p)
    /\ cache # NoFile

\* C3 (as claimed): after a registration run saved photos, a newly constructed
\* system holds an entry for every saved photo in which a face is detected,
\* whether or not a cache file existed.
C3_RelaunchEncodesNewFaces ==
    last_op = "init" =>
        \A p \in TreePaths(tree) :
            (Considered(p) /\ HasFace(p)) => Entries(known_face_encodings, p) >= 1

\* C4 (as claimed): when encode_known_faces returns, also as menu choice 3,
\* the registry holds exactly one entry per considered image with a face, and
\* none for anything else; so does the cache file it wrote.
C4_EncodesEachImageOnce ==
    last_op \in {"encode", "reencode"} =>
        /\ \A p \in TreePaths(tree) :
               Entries(known_face_encodings, p) =
                   (IF Considered(p) /\ HasFace(p) THEN 1 ELSE 0)
        /\ \A i \in DOMAIN known_face_encodings :
               known_face_encodings[i].img \in TreePaths(tree)
        /\ known_face_encodings # <<>> =>
               cache = pickle_dump(known_face_encodings, known_face_names)

\* C10: in encode_known_faces a library exception on one image is printed and
\* not propagated; every other considered image is still processed, and the
\* failing image adds no entry to either list.
C10_ErrorsContained ==
    last_op \in {"encode", "reencode"} =>
        /\ ret.kind # "raised"
        /\ \A p \in TreePaths(tree) :
               Considered(p) =>
                   /\ Cardinality({i \in DOMAIN console :
                                      console[i][2] = p[1] /\ console[i][3] = p[2]}) = 1
                   /\ ~tree[p[1]][p[2]].ok =>
                          /\ <<"error", p[1], p[2]>> \in
                                 {console[i] : i \in DOMAIN console}
                          /\ Entries(known_face_encodings, p) = 0
        /\ Len(known_face_encodings) = Len(known_face_names)

C10_Witness ==
    /\ last_op = "encode"
    /\ \E i, j \in DOMAIN console :
           i < j /\ console[i][1] = "error" /\ console[j][1] = "ok"

\* The distances from a face to the registry, computed from the embeddings.
Distances(face) ==
    {Abs(known_face_encodings[j].vec - face) : j \in DOMAIN known_face_encodings}

\* C2: recognize_faces_in_frame returns one label per detected face; a label
\* carries a known name iff the known encoding at minimum distance is within
\* the tolerance, and then it is the name stored at a minimum-distance index;
\* otherwise, also with an empty registry, the label is exactly "Inconnu".
C2_LabelIffWithinTolerance ==
    last_op = "recognize" =>
        /\ ret.kind = "list"
        /\ Len(ret.val) = Len(input)
        /\ \A i \in DOMAIN input :
               IF \E d \in Distances(input[i]) : d <= Tolerance
               THEN \E j \in DOMAIN known_face_encodings :
                       LET d == Abs(known_face_encodings[j].vec - input[i]) IN
                       /\ \A e \in Distances(input[i]) : d <= e
                       /\ ret.val[i] # Inconnu
                       /\ ret.val[i][1] = known_face_names[j]
               ELSE ret.val[i] = Inconnu

C2_Witness ==
    /\ last_op = "recognize"
    /\ Len(known_face_encodings) >= 2
    /\ Len(input) = 2
    /\ ret.val[1] # Inconnu
    /\ ret.val[1][1] = "Marie"
    /\ known_face_names[1] = "Jean"
    /\ ret.val[2] = Inconnu

\* C8: add_from_file returns False and leaves the known-faces tree unchanged
\* when image_path does not exist; otherwise it creates the person directory
\* if needed, copies the file there under its base name and returns True.
C8_AddFromFile ==
    [][last_op' = "add_from_file" =>
        LET person_name == input'[1]
            image_path == input'[2]
        IN  IF image_path \notin DOMAIN SourceFiles
            THEN ret'.kind = "bool" /\ ret'.val = FALSE /\ tree' = tree
            ELSE /\ ret'.kind = "bool" /\ ret'.val = TRUE
                 /\ DOMAIN tree' = DOMAIN tree \cup {person_name}
                 /\ image_path \in DOMAIN tree'[person_name]
                 /\ tree'[person_name][image_path] = SourceFiles[image_path]
                 /\ \A p \in TreePaths(tree) :
                        p # <<person_name, image_path>> =>
                            p \in TreePaths(tree') /\ tree'[p[1]][p[2]] = tree[p[1]][p[2]]
                 /\ TreePaths(tree') = TreePaths(tree) \cup {<<person_name, image_path>>}
    ]_vars

C8_Witness ==
    /\ last_op = "add_from_file"
    /\ ret.kind = "bool" /\ ret.val = FALSE
    /\ input[2] = MissingSource
    /\ "Marie" \in DOMAIN tree
    /\ input[1] = "Jean" /\ "Jean" \notin DOMAIN tree

\* C9: load_encodings after save_encodings(E, N) on the same file returns a
\* dictionary whose 'encodings' is E and whose 'names' is N, and a file saved
\* under the default name is loaded by the system into its two lists.
C9_RoundTrip ==
    /\ (last_op = "load_encodings" /\ saved # <<>>) =>
           /\ ret.kind = "dict"
           /\ DOMAIN ret.val = {"encodings", "names"}
           /\ ret.val["encodings"] = saved[1]
           /\ ret.val["names"] = saved[2]
    /\ (last_op = "init" /\ saved # <<>>) =>
           /\ known_face_encodings = saved[1]
           /\ known_face_names = saved[2]

C9_Witness ==
    /\ last_op = "init"
    /\ saved # <<>>
    /\ Len(known_face_encodings) = 2
    /\ known_face_names = <<"Marie">>

\* The names capture_faces_from_webcam gives its first n photos.
NumberedNames(person_name, n) ==
    [i \in 1..n |-> <<person_name, NumberPart[i], ".jpg">>]

\* C5 (as claimed): capture_faces_from_webcam keeps 0 <= photo_count <=
\* num_photos in its loop, writes exactly <person>_001.jpg ..
\* <person>_<photo_count>.jpg, returns on every return path the number of
\* photos it saved, and prints the completion message exactly when
\* num_photos photos were saved.
C5_CaptureCount ==
    last_op = "capture_faces" =>
        /\ pc = "multi" => (0 <= cap.photo_count /\ cap.photo_count <= cap.num_photos)
        /\ [i \in DOMAIN cap.written |-> cap.written[i][1]] =
               NumberedNames(cap.person_name, cap.photo_count)
        /\ pc = "idle" =>
               /\ ret.kind = "int"
               /\ ret.val = Len(cap.written)
               /\ cap.message <=> (Len(cap.written) = cap.num_photos)

\* C6: the times at which two photos of one capture_faces_from_webcam call
\* are saved differ by more than capture_cooldown.
C6_CooldownBetweenCaptures ==
    last_op = "capture_faces" =>
        \A i, j \in DOMAIN cap.written :
            i < j => cap.written[j][2] - cap.written[i][2] > capture_cooldown

C6_Witness ==
    /\ last_op = "capture_faces"
    /\ Len(cap.written) = 2
    /\ cap.written[2][2] - cap.written[1][2] = capture_cooldown + 1
    /\ pc = "idle"

\* C7: capture_single_photo writes at most one file per call and returns
\* True iff it wrote it; it returns False without writing when the webcam
\* cannot be opened, a frame cannot be read, or the user presses q.
C7_SinglePhoto ==
    last_op = "capture_single" =>
        /\ Len(cap.written) <= 1
        /\ \A i \in DOMAIN cap.written :
               /\ cap.person_name \in DOMAIN tree
               /\ cap.written[i][1] \in DOMAIN tree[cap.person_name]
        /\ pc = "single" => cap.written = <<>>
        /\ pc = "idle" =>
               /\ ret.kind = "bool"
               /\ ret.val <=> (Len(cap.written) = 1)
               /\ cap.exit \in {"nocam", "readfail", "q"} =>
                      (ret.val = FALSE /\ cap.written = <<>>)

C7_Witness ==
    /\ last_op = "capture_single"
    /\ pc = "idle"
    /\ ret.kind = "bool" /\ ret.val = TRUE
    /\ cap.written # <<>>
    /\ cap.written[1][1] = <<"scan", ".bmp", ".jpg">>

\* C11: the webcam is held by one loop at a time and always given back.  At
\* most one handle is open; a handle is open exactly while one of the three
\* loops runs; and when the function has returned or raised (pc = "idle"),
\* whether by 'q', a failed read, the target count or an exception in the
\* loop, the handle is released and no window is left open.
C11_HandleReleased ==
    /\ handles \in {0, 1}
    /\ (handles = 1) <=> (pc \in {"multi", "single", "video"})
    /\ pc = "idle" => (handles = 0 /\ windows = {})

\* A series of photos was interrupted by an exception after a photo had been
\* saved, and the webcam is free again.
C11_Witness ==
    /\ pc = "idle"
    /\ cap.fn = "multi"
    /\ cap.exit = "raised"
    /\ cap.photo_count > 0
    /\ handles = 0

\* C12: a photo is saved only when a face is detected in the frame being
\* saved.  In every state a capture loop reaches, an iteration in which space
\* is pressed on a frame where the cascade finds no face, at any time, writes
\* no file, leaves photo_count and captured as they are, does not start the
\* cooldown and does not leave the loop.
C12_NoFaceNoSave ==
    /\ pc = "multi" =>
           \A frm \in CamFrames, current_time \in clock .. MaxClock :
               frm.faces = 0 =>
                   LET r == MultiBody(cap, tree, TRUE, frm, "space", current_time)
                   IN  /\ r.tree = tree
                       /\ r.c.photo_count = cap.photo_count
                       /\ r.c.last_capture_time = cap.last_capture_time
                       /\ r.c.written = cap.written
                       /\ ~r.brk
    /\ pc = "single" =>
           \A frm \in CamFrames, current_time \in clock .. MaxClock :
               frm.faces = 0 =>
                   LET r == SingleBody(cap, tree, TRUE, frm, "space", current_time)
                   IN  /\ r.tree = tree
                       /\ r.c.captured = cap.captured
                       /\ r.c.written = cap.written
                       /\ ~r.brk

\* Space was just pressed on a frame without a face, after the cooldown of an
\* earlier photo had run out: the loop goes on with one photo.
C12_Witness ==
    /\ pc = "multi"
    /\ console = NoFaceWarning
    /\ cap.photo_count = 1
    /\ NFiles(tree) = 1
    /\ clock - cap.last_capture_time > capture_cooldown

\* C13: every file a registration operation places in a person directory is
\* one encode_known_faces will consider: it lies directly inside
\* known_faces/<person_name>/ and its suffix, lower-cased, is one of .jpg,
\* .jpeg, .png, .bmp.
C13_RegisteredFilesConsidered ==
    \A p \in TreePaths(tree) : p[1] \in Persons /\ Considered(p)

====
